---------------------------- MODULE Spec2Model ----------------------------
(***************************************************************************)
(* The survey service: POST /submit (validateSurvey, then submitSurvey)    *)
(* and GET /stats (getSurveyStats) over the Survey collection.             *)
(*                                                                         *)
(* Text values are sequences of one-character strings, so that trimming,   *)
(* length checks and the regular expressions of the validators are         *)
(* computed character by character.  A missing body field reaches the      *)
(* standard validators as the empty text.                                  *)
(***************************************************************************)
EXTENDS Integers, Sequences, FiniteSets, TLC

VARIABLES store, now, utcBehind, req, resp

vars == <<store, now, utcBehind, req, resp>>

---------------------------------------------------------------------------
(* Bounds of the model.                                                    *)

MaxStore == 3

MaxDays == 1

MaxRecords == 20

MaxShort == 3

---------------------------------------------------------------------------
(* Characters and text helpers.                                            *)

DigitChars == <<"0", "1", "2", "3", "4", "5", "6", "7", "8", "9">>

IsDigit(c) == \E i \in 1..10 : DigitChars[i] = c

DigitVal(c) == (CHOOSE i \in 1..10 : DigitChars[i] = c) - 1

IsWhitespace(c) == c = " "

IsUpper(c) == c \in {"A", "B", "G", "J", "U"}

IsLower(c) == c \in {"a", "b", "c", "e", "f", "g", "i", "l", "m", "n", "o", "r", "s", "t", "u", "x"}

toLowerCase(c) ==
  CASE c = "A" -> "a"
    [] c = "B" -> "b"
    [] c = "G" -> "g"
    [] c = "J" -> "j"
    [] c = "U" -> "u"
    [] OTHER -> c

AllDigits(s) == \A i \in 1..Len(s) : IsDigit(s[i])

RECURSIVE ToNumber(_)
ToNumber(s) ==
  IF s = <<>> THEN 0
  ELSE 10 * ToNumber(SubSeq(s, 1, Len(s) - 1)) + DigitVal(s[Len(s)])

RECURSIVE Digits(_, _)
Digits(n, width) ==
  IF width = 0 THEN <<>>
  ELSE Append(Digits(n \div 10, width - 1), DigitChars[(n % 10) + 1])

Repeat(c, n) == [i \in 1..n |-> c]

RECURSIVE ltrim(_)
ltrim(s) == IF s # <<>> /\ IsWhitespace(s[1]) THEN ltrim(Tail(s)) ELSE s

RECURSIVE rtrim(_)
rtrim(s) ==
  IF s # <<>> /\ IsWhitespace(s[Len(s)]) THEN rtrim(SubSeq(s, 1, Len(s) - 1)) ELSE s

trim(s) == rtrim(ltrim(s))

isEmpty(s) == Len(s) = 0

isLength(s, min, max) == Len(s) >= min /\ Len(s) <= max

(* validator.js isNumeric without no_symbols: ^[+-]?([0-9]*[.])?[0-9]+$     *)
isNumeric(s) ==
  LET unsigned == IF s # <<>> /\ s[1] \in {"+", "-"} THEN Tail(s) ELSE s
  IN  \/ unsigned # <<>> /\ AllDigits(unsigned)
      \/ \E k \in 1..Len(unsigned) :
            /\ unsigned[k] = "."
            /\ AllDigits(SubSeq(unsigned, 1, k - 1))
            /\ k < Len(unsigned)
            /\ AllDigits(SubSeq(unsigned, k + 1, Len(unsigned)))

(* validator.js isInt with min and max: ^[-+]?[0-9]+$ and min <= str <= max *)
isInt(s, min, max) ==
  LET unsigned == IF s # <<>> /\ s[1] \in {"+", "-"} THEN Tail(s) ELSE s
      value == IF s # <<>> /\ s[1] = "-" THEN 0 - ToNumber(unsigned) ELSE ToNumber(unsigned)
  IN  /\ unsigned # <<>>
      /\ AllDigits(unsigned)
      /\ value >= min
      /\ value <= max


---------------------------------------------------------------------------
(* Email: validator.js isEmail and normalizeEmail, for plain addresses     *)
(* (no display name, no quoted local part, no IP domain).                  *)

GmailCom == <<"g", "m", "a", "i", "l", ".", "c", "o", "m">>

GooglemailCom == <<"g", "o", "o", "g", "l", "e">> \o SubSeq(GmailCom, 2, 9)

(* The boolean false of normalizeEmail, as the String cast stores it.      *)
FalseText == <<"f", "a", "l", "s", "e">>

LastIndexOf(s, c) ==
  IF \E i \in 1..Len(s) : s[i] = c
  THEN CHOOSE i \in 1..Len(s) : s[i] = c /\ \A j \in (i + 1)..Len(s) : s[j] # c
  ELSE 0

IndexOf(s, c) ==
  IF \E i \in 1..Len(s) : s[i] = c
  THEN CHOOSE i \in 1..Len(s) : s[i] = c /\ \A j \in 1..(i - 1) : s[j] # c
  ELSE 0

IsAlnum(c) == IsLower(c) \/ IsUpper(c) \/ IsDigit(c)

IsUserChar(c) == IsAlnum(c) \/ c \in {"+", "-", "_"}

(* user.split('.') : every part non-empty and made of allowed characters   *)
IsUserPart(user) ==
  /\ user # <<>>
  /\ user[1] # "."
  /\ user[Len(user)] # "."
  /\ \A i \in 1..Len(user) : IsUserChar(user[i]) \/ user[i] = "."
  /\ \A i \in 1..(Len(user) - 1) : ~(user[i] = "." /\ user[i + 1] = ".")

isFQDN(domain) ==
  LET dot == LastIndexOf(domain, ".")
      tld == SubSeq(domain, dot + 1, Len(domain))
  IN  /\ dot > 1
      /\ Len(tld) >= 2
      /\ \A i \in 1..Len(tld) : IsLower(tld[i]) \/ IsUpper(tld[i])
      /\ domain[1] \notin {".", "-"}
      /\ \A i \in 1..Len(domain) : IsAlnum(domain[i]) \/ domain[i] \in {".", "-"}
      /\ \A i \in 1..(Len(domain) - 1) :
            /\ ~(domain[i] = "." /\ domain[i + 1] \in {".", "-"})
            /\ ~(domain[i] = "-" /\ domain[i + 1] = ".")

isEmail(s) ==
  LET at == LastIndexOf(s, "@")
      user == SubSeq(s, 1, at - 1)
      domain == SubSeq(s, at + 1, Len(s))
  IN  /\ at > 0
      /\ Len(user) <= 64
      /\ Len(domain) <= 254
      /\ isFQDN(domain)
      /\ IsUserPart(user)

LowerText(s) == [i \in 1..Len(s) |-> toLowerCase(s[i])]

RECURSIVE RemoveDots(_)
RemoveDots(s) ==
  IF s = <<>> THEN <<>>
  ELSE IF s[1] = "." THEN RemoveDots(Tail(s))
  ELSE <<s[1]>> \o RemoveDots(Tail(s))

normalizeEmail(email) ==
  LET at == LastIndexOf(email, "@")
      user == SubSeq(email, 1, at - 1)
      domain == LowerText(SubSeq(email, at + 1, Len(email)))
      plus == IndexOf(user, "+")
      gmailUser == RemoveDots(IF plus > 0 THEN SubSeq(user, 1, plus - 1) ELSE user)
  IN  IF domain = GmailCom \/ domain = GooglemailCom
      THEN IF gmailUser = <<>> THEN FalseText
           ELSE LowerText(gmailUser) \o <<"@">> \o GmailCom
      ELSE LowerText(user) \o <<"@">> \o domain

---------------------------------------------------------------------------
(* Dates.  A Date built from a date-only text is midnight UTC of that day; *)
(* getFullYear, getMonth and getDate read it in the server's time zone,    *)
(* which shows the previous day when the zone is behind UTC.  The current  *)
(* date is kept as the server's local calendar day.                        *)

IsLeapYear(y) == (y % 4 = 0 /\ y % 100 # 0) \/ y % 400 = 0

DaysInMonth(y, m) ==
  IF m = 2 THEN (IF IsLeapYear(y) THEN 29 ELSE 28)
  ELSE IF m \in {4, 6, 9, 11} THEN 30 ELSE 31

InvalidDate == [y |-> 0, m |-> 0, d |-> 0]

NextDay(date) ==
  IF date.d < DaysInMonth(date.y, date.m) THEN [date EXCEPT !.d = @ + 1]
  ELSE IF date.m < 12 THEN [y |-> date.y, m |-> date.m + 1, d |-> 1]
  ELSE [y |-> date.y + 1, m |-> 1, d |-> 1]

PrevDay(date) ==
  IF date.d > 1 THEN [date EXCEPT !.d = @ - 1]
  ELSE IF date.m > 1
       THEN [y |-> date.y, m |-> date.m - 1, d |-> DaysInMonth(date.y, date.m - 1)]
  ELSE [y |-> date.y - 1, m |-> 12, d |-> 31]

RECURSIVE AddDays(_, _)
AddDays(date, n) == IF n = 0 THEN date ELSE AddDays(NextDay(date), n - 1)

StartDay == [y |-> 2025, m |-> 6, d |-> 14]

Today == AddDays(StartDay, now)

(* YYYY-MM-DD, months 01-12, days 01-31 (the calendar-date form of the     *)
(* isISO8601 pattern, which is not strict about the length of a month)     *)
isISO8601(s) ==
  /\ Len(s) = 10
  /\ s[5] = "-"
  /\ s[8] = "-"
  /\ AllDigits(SubSeq(s, 1, 4) \o SubSeq(s, 6, 7) \o SubSeq(s, 9, 10))
  /\ ToNumber(SubSeq(s, 6, 7)) \in 1..12
  /\ ToNumber(SubSeq(s, 9, 10)) \in 1..31

(* new Date(text): a date-only ISO text is that day at 00:00 UTC, a day    *)
(* past the end of its month runs into the next month, anything else is an *)
(* invalid Date                                                            *)
NewDate(s) ==
  IF ~isISO8601(s) THEN InvalidDate
  ELSE LET y == ToNumber(SubSeq(s, 1, 4))
           m == ToNumber(SubSeq(s, 6, 7))
           d == ToNumber(SubSeq(s, 9, 10))
           last == DaysInMonth(y, m)
       IN  IF d <= last THEN [y |-> y, m |-> m, d |-> d]
           ELSE AddDays([y |-> y, m |-> m, d |-> last], d - last)

LocalDate(date) == IF utcBehind THEN PrevDay(date) ELSE date

getFullYear(date) == LocalDate(date).y

getMonth(date) == LocalDate(date).m - 1

getDate(date) == LocalDate(date).d

DateText(y, m, d) == Digits(y, 4) \o <<"-">> \o Digits(m, 2) \o <<"-">> \o Digits(d, 2)

---------------------------------------------------------------------------
(* validateSurvey: the validation chains of POST /submit.  Every validator *)
(* of a chain runs (no bail), and every chain runs; the sanitizers (trim,  *)
(* normalizeEmail) rewrite the request body.                               *)

Error(path, msg) == <<[field |-> path, message |-> msg]>>

When(failed, path, msg) == IF failed THEN Error(path, msg) ELSE <<>>

fullNameChain(value) ==
  LET v == trim(value)
  IN  When(isEmpty(v), "fullName", "Full name is required")
      \o When(~isLength(v, 2, 50), "fullName", "Name must be between 2-50 characters")

emailChain(value) ==
  LET v == trim(value)
  IN  When(isEmpty(v), "email", "Email is required")
      \o When(~isEmail(v), "email", "Please enter a valid email")

contactNumberChain(value) ==
  LET v == trim(value)
  IN  When(isEmpty(v), "contactNumber", "Contact number is required")
      \o When(~isLength(v, 10, 10), "contactNumber", "Contact number must be 10 digits")
      \o When(~isNumeric(v), "contactNumber", "Contact number must contain only numbers")

(* the age the custom validator of dateOfBirth computes from a valid Date  *)
validatorAge(birthDate, today) ==
  LET age == today.y - getFullYear(birthDate)
      monthDiff == (today.m - 1) - getMonth(birthDate)
  IN  IF monthDiff < 0 \/ (monthDiff = 0 /\ today.d < getDate(birthDate))
      THEN age - 1
      ELSE age

(* an invalid Date gives the age NaN, which is neither < 5 nor > 120       *)
ageOutOfRange(value, today) ==
  LET birthDate == NewDate(value)
  IN  /\ birthDate # InvalidDate
      /\ (validatorAge(birthDate, today) < 5 \/ validatorAge(birthDate, today) > 120)

dateOfBirthChain(value, today) ==
  When(isEmpty(value), "dateOfBirth", "Date of birth is required")
  \o When(~isISO8601(value), "dateOfBirth", "Please use a valid date format (YYYY-MM-DD)")
  \o When(ageOutOfRange(value, today), "dateOfBirth", "Age must be between 5 and 120 years")

validFoods == {"Pizza", "Pap and Wors", "Other", "Pasta"}

(* foods.every throws on a value that is no array, which is an error too   *)
favoriteFoodsChain(value) ==
  When(~(value.isArray /\ Len(value.items) >= 1), "favoriteFoods",
       "Please select at least one favorite food")
  \o When(~(value.isArray /\ \A i \in 1..Len(value.items) : value.items[i] \in validFoods),
          "favoriteFoods", "Invalid food selection")

ratingChain(path, value, requiredMsg) ==
  When(isEmpty(value), path, requiredMsg)
  \o When(~isInt(value, 1, 5), path, "Rating must be between 1-5")

validationResult(body, today) ==
  fullNameChain(body.fullName)
  \o emailChain(body.email)
  \o contactNumberChain(body.contactNumber)
  \o dateOfBirthChain(body.dateOfBirth, today)
  \o favoriteFoodsChain(body.favoriteFoods)
  \o ratingChain("ratings.eatOut", body.ratings.eatOut, "Eating out rating is required")
  \o ratingChain("ratings.watchMovies", body.ratings.watchMovies, "Movies rating is required")
  \o ratingChain("ratings.watchTV", body.ratings.watchTV, "TV rating is required")
  \o ratingChain("ratings.listenRadio", body.ratings.listenRadio, "Radio rating is required")

(* the request body as the sanitizers leave it                             *)
sanitized(body) ==
  [body EXCEPT !.fullName = trim(@),
               !.email = normalizeEmail(trim(@)),
               !.contactNumber = trim(@)]

---------------------------------------------------------------------------
(* The Survey model: casting and schema validation of new Survey(req.body) *)

(* the Number cast of the integer texts isInt admits; any other text is    *)
(* no rating the schema accepts, for which 0 stands                        *)
castNumber(s) == IF isInt(s, 1, 5) THEN ToNumber(IF s[1] \in {"+", "-"} THEN Tail(s) ELSE s) ELSE 0

castSurvey(body) ==
  [fullName |-> body.fullName,
   email |-> body.email,
   contactNumber |-> body.contactNumber,
   dateOfBirth |-> NewDate(body.dateOfBirth),
   favoriteFoods |-> body.favoriteFoods.items,
   ratings |-> [eatOut |-> castNumber(body.ratings.eatOut),
                watchMovies |-> castNumber(body.ratings.watchMovies),
                watchTV |-> castNumber(body.ratings.watchTV),
                listenRadio |-> castNumber(body.ratings.listenRadio)]]

ratingInSchema(n) == n >= 1 /\ n <= 5

surveySchema(doc) ==
  /\ doc.fullName # <<>>
  /\ doc.email # <<>>
  /\ doc.contactNumber # <<>>
  /\ Len(doc.contactNumber) >= 10
  /\ Len(doc.contactNumber) <= 10
  /\ doc.dateOfBirth # InvalidDate
  /\ \A i \in 1..Len(doc.favoriteFoods) : doc.favoriteFoods[i] \in validFoods
  /\ ratingInSchema(doc.ratings.eatOut)
  /\ ratingInSchema(doc.ratings.watchMovies)
  /\ ratingInSchema(doc.ratings.watchTV)
  /\ ratingInSchema(doc.ratings.listenRadio)

(* the document save() inserts: timestamps add createdAt                   *)
savedSurvey(doc, today) ==
  [fullName |-> doc.fullName,
   email |-> doc.email,
   contactNumber |-> doc.contactNumber,
   dateOfBirth |-> doc.dateOfBirth,
   favoriteFoods |-> doc.favoriteFoods,
   ratings |-> doc.ratings,
   createdAt |-> today]

---------------------------------------------------------------------------
(* Number arithmetic of getSurveyStats.  sum / total is the IEEE double    *)
(* nearest the exact quotient; toFixed(1) then picks the one-decimal value *)
(* nearest that double, the larger one when the double is exactly midway.  *)
(* A one-decimal result is kept as its number of tenths ("42.7" is 427).   *)

RECURSIVE Normalise(_, _)
Normalise(n, d) ==
  IF n < d THEN Normalise(2 * n, d)
  ELSE IF n >= 2 * d THEN Normalise(n, 2 * d)
  ELSE <<n, d>>

(* binary long division: the remainder and the last bit after `bits` more  *)
(* quotient bits                                                           *)
RECURSIVE Mantissa(_, _, _, _)
Mantissa(r, d, bits, last) ==
  IF bits = 0 THEN <<r, last>>
  ELSE IF 2 * r >= d THEN Mantissa(2 * r - d, d, bits - 1, 1)
  ELSE Mantissa(2 * r, d, bits - 1, 0)

(* the sign of (double(num / den) - num / den): the quotient is rounded to *)
(* 53 significant bits, to nearest, ties to even                           *)
quotientError(num, den) ==
  IF num = 0 THEN 0
  ELSE LET nd == Normalise(num, den)
           m == Mantissa(nd[1] - nd[2], nd[2], 52, 1)
       IN  IF m[1] = 0 THEN 0
           ELSE IF 2 * m[1] < nd[2] THEN 0 - 1
           ELSE IF 2 * m[1] > nd[2] THEN 1
           ELSE IF m[2] = 0 THEN 0 - 1 ELSE 1

(* toFixed(1) of a double that is num / den up to its rounding error, whose *)
(* sign is err: the error is far smaller than the distance of a quotient   *)
(* of the model's sizes from the nearest midpoint, so it decides the digit *)
(* only when num / den is exactly midway                                   *)
toFixed1(num, den, err) ==
  LET n == (20 * num + den) \div (2 * den)
      midway == (20 * num + den) % (2 * den) = 0
  IN  IF midway /\ err < 0 THEN n - 1 ELSE n

(* (sum / total).toFixed(1)                                                *)
average(sum, total) == toFixed1(sum, total, quotientError(sum, total))

(* ((count / total) * 100).toFixed(1): with fewer than 80 records a         *)
(* percentage is exactly midway only when count / total is a binary         *)
(* fraction, which the division and the product by 100 compute exactly      *)
percentage(count, total) == toFixed1(100 * count, total, quotientError(count, total))

RECURSIVE SumSeq(_)
SumSeq(s) == IF s = <<>> THEN 0 ELSE s[1] + SumSeq(Tail(s))

(* a slip: the first age taken for the largest                             *)
MathMaxFirst(s) == s[1]

MathMax(s) == CHOOSE x \in {s[i] : i \in 1..Len(s)} : \A j \in 1..Len(s) : s[j] <= x

MathMin(s) == CHOOSE x \in {s[i] : i \in 1..Len(s)} : \A j \in 1..Len(s) : s[j] >= x

includes(foods, food) == \E i \in 1..Len(foods) : foods[i] = food

(* a slip: the years between the two dates, whether or not this year's     *)
(* birthday has passed                                                     *)
statsAgeYearsOnly(birthDate, today) == today.y - getFullYear(birthDate)

(* the age getSurveyStats computes for a stored dateOfBirth                *)
statsAge(birthDate, today) ==
  LET age == today.y - getFullYear(birthDate)
      monthDiff == (today.m - 1) - getMonth(birthDate)
  IN  IF monthDiff < 0 \/ (monthDiff = 0 /\ today.d < getDate(birthDate))
      THEN age - 1
      ELSE age

NoSurveys == [message |-> "No Surveys Available"]

surveyStats(surveys, today) ==
  LET totalSurveys == Len(surveys)
      ages == [i \in 1..totalSurveys |-> statsAge(surveys[i].dateOfBirth, today)]
      pizzaCount == Cardinality({i \in 1..totalSurveys : includes(surveys[i].favoriteFoods, "Pizza")})
      papWorsCount == Cardinality({i \in 1..totalSurveys : includes(surveys[i].favoriteFoods, "Pap and Wors")})
      eatOut == [i \in 1..totalSurveys |-> surveys[i].ratings.eatOut]
      watchMovies == [i \in 1..totalSurveys |-> surveys[i].ratings.watchMovies]
      watchTV == [i \in 1..totalSurveys |-> surveys[i].ratings.watchTV]
      listenRadio == [i \in 1..totalSurveys |-> surveys[i].ratings.listenRadio]
  IN  [totalSurveys |-> totalSurveys,
       averageAge |-> average(SumSeq(ages), totalSurveys),
       oldest |-> MathMax(ages),
       youngest |-> MathMin(ages),
       pizzaLoversPercentage |-> percentage(pizzaCount, totalSurveys),
       papWorsPercentage |-> percentage(papWorsCount, totalSurveys),
       averageEatOutRating |-> average(SumSeq(eatOut), totalSurveys),
       averageWatchMoviesRating |-> average(SumSeq(watchMovies), totalSurveys),
       averageWatchTVRating |-> average(SumSeq(watchTV), totalSurveys),
       averageListenRadioRating |-> average(SumSeq(listenRadio), totalSurveys)]

(* a slip: a single record is answered like none                           *)
getSurveyStatsOffByOne(surveys, today) ==
  IF Len(surveys) <= 1 THEN NoSurveys ELSE surveyStats(surveys, today)

(* the JSON body getSurveyStats answers with                               *)
getSurveyStats(surveys, today) ==
  IF Len(surveys) = 0 THEN NoSurveys ELSE surveyStats(surveys, today)

---------------------------------------------------------------------------
(* Requests.                                                               *)

(* a request carries the day the server received it                       *)
NoRequest == [method |-> "none", path |-> "", day |-> 0]

NoResponse == [status |-> 0, handler |-> "none"]

(* submitSurvey: new Survey(req.body), save()                              *)
submitSurvey(body) ==
  LET doc == castSurvey(body)
  IN  IF surveySchema(doc)
      THEN /\ store' = Append(store, savedSurvey(doc, Today))
           /\ resp' = [status |-> 201, handler |-> "submitSurvey",
                       body |-> [message |-> "Survey submitted successfully"]]
      ELSE /\ store' = store
           /\ resp' = [status |-> 400, handler |-> "submitSurvey",
                       body |-> [error |-> "Survey validation failed"]]

(* POST /submit past the rate limiter: validateSurvey, then submitSurvey   *)
Submit(body) ==
  /\ req' = [method |-> "POST", path |-> "/submit", body |-> body, day |-> now]
  /\ LET errors == validationResult(body, Today)
     IN  IF errors # <<>>
         THEN /\ resp' = [status |-> 400, handler |-> "validateSurvey",
                          body |-> [message |-> "Validation failed", errors |-> errors]]
              /\ store' = store
         ELSE submitSurvey(sanitized(body))
  /\ UNCHANGED <<now, utcBehind>>

(* POST /submit stopped by submitLimiter.  The requests of a client's       *)
(* window are not counted: any request may be the one over the limit.       *)
RateLimited(body) ==
  /\ req' = [method |-> "POST", path |-> "/submit", body |-> body, day |-> now]
  /\ resp' = [status |-> 429, handler |-> "submitLimiter",
              body |-> [message |-> "Too many survey submissions from this IP, please try again later"]]
  /\ UNCHANGED <<store, now, utcBehind>>

(* a slip: a statistics request that removes the record it read first      *)
GetStatsConsuming ==
  /\ req' = [method |-> "GET", path |-> "/stats", day |-> now]
  /\ resp' = [status |-> 200, handler |-> "getSurveyStats",
              body |-> getSurveyStats(store, Today)]
  /\ store' = IF store = <<>> THEN store ELSE Tail(store)
  /\ UNCHANGED <<now, utcBehind>>

(* GET /stats                                                              *)
GetStats ==
  /\ req' = [method |-> "GET", path |-> "/stats", day |-> now]
  /\ resp' = [status |-> 200, handler |-> "getSurveyStats",
              body |-> getSurveyStats(store, Today)]
  /\ UNCHANGED <<store, now, utcBehind>>

(* midnight passes on the server                                           *)
AdvanceDay ==
  /\ now < MaxDays
  /\ now' = now + 1
  /\ UNCHANGED <<store, utcBehind, req, resp>>

---------------------------------------------------------------------------
(* Request bodies.  A body is a base form with some fields replaced.       *)

Slots == {"fullName", "email", "contactNumber", "dateOfBirth", "favoriteFoods",
          "eatOut", "watchMovies", "watchTV", "listenRadio"}

RatingSlots == {"eatOut", "watchMovies", "watchTV", "listenRadio"}

Foods(items) == [isArray |-> TRUE, items |-> items]

NotAnArray == [isArray |-> FALSE, items |-> <<>>]

BaseSlots ==
  [fullName |-> <<"J", "o">>,
   email |-> <<"a", "@", "b", ".", "c", "o">>,
   contactNumber |-> <<"0", "8", "2", "1", "2", "3", "4", "5", "6", "7">>,
   dateOfBirth |-> DateText(1993, 1, 1),
   favoriteFoods |-> Foods(<<"Pizza">>),
   eatOut |-> <<"3">>,
   watchMovies |-> <<"3">>,
   watchTV |-> <<"3">>,
   listenRadio |-> <<"3">>]

Body(slots) ==
  [fullName |-> slots.fullName,
   email |-> slots.email,
   contactNumber |-> slots.contactNumber,
   dateOfBirth |-> slots.dateOfBirth,
   favoriteFoods |-> slots.favoriteFoods,
   ratings |-> [eatOut |-> slots.eatOut,
                watchMovies |-> slots.watchMovies,
                watchTV |-> slots.watchTV,
                listenRadio |-> slots.listenRadio]]

(* values a form field is given that its validation chain must refuse      *)
RefusedValues(slot) ==
  CASE slot = "fullName" -> {<<>>, <<" ", " ">>, <<"J">>, Repeat("x", 51)}
    [] slot = "email" -> {<<>>, <<"a", "b">>, <<"a", "@", "b">>}
    [] slot = "contactNumber" ->
         {<<>>, <<"0", "8", "2", "1", "2", "3", "4", "5", "6">>, <<"0", "8", "2", "1", "2", "3", "4", "5", "6", "7", "8">>, <<"+", "8", "2", "1", "2", "3", "4", "5", "6", "7">>, <<"0", "8", "2", "1", "2", ".", "4", "5", "6", "7">>, <<"0", "8", "2", "1", "2", "3", "4", "5", "6", "a">>}
    [] slot = "dateOfBirth" ->
         {<<>>, <<"x">>, DateText(2020, 6, 16), DateText(2020, 7, 1),
          DateText(1904, 6, 14)}
    [] slot = "favoriteFoods" ->
         {NotAnArray, Foods(<<>>), Foods(<<"Burger">>), Foods(<<"Pizza", "Burger">>)}
    [] OTHER -> {<<>>, <<"0">>, <<"6">>, <<"2", ".", "5">>}

(* further values, some of them admissible on one day and not on the next  *)
OtherValues(slot) ==
  CASE slot = "fullName" -> {<<" ", "J", "o", " ">>, Repeat("x", 50)}
    [] slot = "email" -> {<<"A", ".", "b", "+", "c", "@", "G", "m", "a", "i", "l", ".", "c", "o", "m">>, <<" ", "a", "@", "b", ".", "c", "o", " ">>}
    [] slot = "contactNumber" -> {<<" ", "0", "8", "2", "1", "2", "3", "4", "5", "6", "7", " ">>, Repeat("0", 10)}
    [] slot = "dateOfBirth" ->
         {DateText(2020, 6, 15), DateText(2020, 6, 14), DateText(1905, 6, 15),
          DateText(1904, 6, 15), DateText(1904, 6, 16), DateText(2007, 1, 1),
          DateText(2020, 3, 1)}
    [] slot = "favoriteFoods" ->
         {Foods(<<"Pap and Wors">>), Foods(<<"Pizza", "Pizza">>), Foods(<<"Other", "Pasta">>)}
    [] OTHER -> {<<"1">>, <<"5">>}

FormValues(slot) == RefusedValues(slot) \cup OtherValues(slot)

(* the forms one field away from `from`, the field given a refused value,  *)
(* or any value when `any`                                                 *)
OneChange(from, any) ==
  UNION {{[from EXCEPT ![slot] = v] :
            v \in IF any THEN FormValues(slot) ELSE RefusedValues(slot)} : slot \in Slots}

(* the forms of the validation runs: the base form, every form one field   *)
(* away from it, and every form with two fields given a refused value      *)
FormBodies ==
  LET one == OneChange(BaseSlots, TRUE)
      refused == OneChange(BaseSlots, FALSE)
      two == UNION {OneChange(form, FALSE) : form \in refused}
  IN  {Body(slots) : slots \in {BaseSlots} \cup one \cup two}

(* the forms of the service runs                                           *)
SurveyBodies ==
  {Body(slots) : slots \in
     {BaseSlots,
      [BaseSlots EXCEPT !.fullName = <<" ", "J", "o", " ">>,
                        !.email = <<"A", ".", "b", "+", "c", "@", "G", "m", "a", "i", "l", ".", "c", "o", "m">>,
                        !.dateOfBirth = DateText(2007, 9, 1),
                        !.favoriteFoods = Foods(<<"Pap and Wors", "Pasta">>),
                        !.eatOut = <<"5">>, !.watchMovies = <<"1">>,
                        !.watchTV = <<"2">>, !.listenRadio = <<"4">>],
      [BaseSlots EXCEPT !.dateOfBirth = DateText(2020, 6, 15),
                        !.favoriteFoods = Foods(<<"Other">>),
                        !.eatOut = <<"2">>],
      [BaseSlots EXCEPT !.contactNumber = <<"+", "8", "2", "1", "2", "3", "4", "5", "6", "7">>],
      [BaseSlots EXCEPT !.fullName = <<>>, !.watchTV = <<"6">>]}}

---------------------------------------------------------------------------
(* Specifications.                                                         *)

Init ==
  /\ store = <<>>
  /\ now = 0
  /\ utcBehind \in BOOLEAN
  /\ req = NoRequest
  /\ resp = NoResponse

(* the service: submissions, statistics requests and the passing of days   *)
Next ==
  \/ \E body \in SurveyBodies : Len(store) < MaxStore /\ Submit(body)
  \/ \E body \in SurveyBodies : Len(store) < MaxStore /\ RateLimited(body)
  \/ GetStats
  \/ AdvanceDay

Spec == Init /\ [][Next]_vars

(* validation: every form of FormBodies as the first request of a run      *)
NextForm ==
  \/ \E body \in FormBodies : req = NoRequest /\ Submit(body)
  \/ \E body \in FormBodies : req = NoRequest /\ RateLimited(body)
  \/ GetStats
  \/ AdvanceDay

SpecForm == Init /\ [][NextForm]_vars

(* statistics: collections of up to MaxRecords stored surveys, each the    *)
(* record an accepted submission of StartDay left                          *)
StatsForms ==
  <<[BaseSlots EXCEPT !.eatOut = <<"1">>],
    [BaseSlots EXCEPT !.dateOfBirth = DateText(2007, 1, 1),
                      !.favoriteFoods = Foods(<<"Pap and Wors", "Pasta">>),
                      !.eatOut = <<"2">>, !.watchMovies = <<"1">>,
                      !.watchTV = <<"5">>, !.listenRadio = <<"4">>],
    [BaseSlots EXCEPT !.dateOfBirth = DateText(1947, 1, 1),
                      !.favoriteFoods = Foods(<<"Other", "Pizza">>),
                      !.eatOut = <<"5">>, !.watchMovies = <<"5">>,
                      !.watchTV = <<"5">>, !.listenRadio = <<"5">>]>>

StatsDocs ==
  {savedSurvey(castSurvey(sanitized(Body(StatsForms[i]))), StartDay) : i \in 1..Len(StatsForms)}

(* n records: k of one kind, then n - k of another                         *)
Blocks(n, k, a, b) == [i \in 1..n |-> IF i <= k THEN a ELSE b]

StatsStores ==
  {Blocks(n, k, a, b) : n \in 0..MaxRecords, k \in 0..MaxRecords, a \in StatsDocs, b \in StatsDocs}
  \cup UNION {[1..n -> StatsDocs] : n \in 0..MaxShort}

InitStats ==
  /\ store \in StatsStores
  /\ now = 0
  /\ utcBehind \in BOOLEAN
  /\ req = NoRequest
  /\ resp = NoResponse

NextStats ==
  \/ GetStats
  \/ AdvanceDay

SpecStats == InitStats /\ [][NextStats]_vars

---------------------------------------------------------------------------
(* The rules of the data model, as the claims state them.                  *)

ErrorsOf(r) == IF r.handler = "validateSurvey" THEN r.body.errors ELSE <<>>

HasError(r, path) == \E i \in 1..Len(ErrorsOf(r)) : ErrorsOf(r)[i].field = path

SlotPath(slot) ==
  CASE slot = "eatOut" -> "ratings.eatOut"
    [] slot = "watchMovies" -> "ratings.watchMovies"
    [] slot = "watchTV" -> "ratings.watchTV"
    [] slot = "listenRadio" -> "ratings.listenRadio"
    [] OTHER -> slot

SlotValue(body, slot) == IF slot \in RatingSlots THEN body.ratings[slot] ELSE body[slot]

(* a validated submission: a POST /submit the rate limiter let through     *)
Validated(rq, rs) == rq.method = "POST" /\ rs.handler # "submitLimiter"

DayOf(rq) == AddDays(StartDay, rq.day)

(* whole years between a calendar date of birth and a calendar day         *)
RuleAge(birth, today) ==
  (today.y - birth.y)
  - (IF today.m < birth.m \/ (today.m = birth.m /\ today.d < birth.d) THEN 1 ELSE 0)

WrittenDate(text) ==
  [y |-> ToNumber(SubSeq(text, 1, 4)),
   m |-> ToNumber(SubSeq(text, 6, 7)),
   d |-> ToNumber(SubSeq(text, 9, 10))]

Parseable(text) ==
  /\ isISO8601(text)
  /\ WrittenDate(text).d <= DaysInMonth(WrittenDate(text).y, WrittenDate(text).m)

TenDigits(text) == Len(text) = 10 /\ \A i \in 1..Len(text) : IsDigit(text[i])

Vocabulary == {"Pizza", "Pap and Wors", "Other", "Pasta"}

Admissible(slot, v, today) ==
  CASE slot = "fullName" -> Len(trim(v)) >= 2 /\ Len(trim(v)) <= 50
    [] slot = "email" -> isEmail(trim(v))
    [] slot = "contactNumber" -> TenDigits(trim(v))
    [] slot = "dateOfBirth" ->
         Parseable(v) /\ RuleAge(WrittenDate(v), today) \in 5..120
    [] slot = "favoriteFoods" ->
         v.isArray /\ Len(v.items) >= 1 /\ \A i \in 1..Len(v.items) : v.items[i] \in Vocabulary
    [] OTHER -> v \in {<<"1">>, <<"2">>, <<"3">>, <<"4">>, <<"5">>}

ViolatedSlots(body, today) ==
  {slot \in Slots : ~Admissible(slot, SlotValue(body, slot), today)}

RecordAdmissible(doc) ==
  /\ Len(doc.fullName) >= 2 /\ Len(doc.fullName) <= 50
  /\ isEmail(doc.email)
  /\ TenDigits(doc.contactNumber)
  /\ RuleAge(doc.dateOfBirth, doc.createdAt) \in 5..120
  /\ Len(doc.favoriteFoods) >= 1
  /\ \A i \in 1..Len(doc.favoriteFoods) : doc.favoriteFoods[i] \in Vocabulary
  /\ \A slot \in RatingSlots : doc.ratings[slot] \in 1..5

IsMarker(json) == DOMAIN json = {"message"} /\ json.message = "No Surveys Available"

IsSummary(json) ==
  DOMAIN json = {"totalSurveys", "averageAge", "oldest", "youngest",
                 "pizzaLoversPercentage", "papWorsPercentage", "averageEatOutRating",
                 "averageWatchMoviesRating", "averageWatchTVRating",
                 "averageListenRadioRating"}

(* the statistics answer in resp is the answer to a request over `store`   *)
StatsAnswered == resp.handler = "getSurveyStats"

AgesOn(day) == [i \in 1..Len(store) |-> statsAge(store[i].dateOfBirth, day)]

(* num / den rounded to one decimal, a midway value away from zero, in     *)
(* tenths (num >= 0, den > 0)                                              *)
HalfAway(num, den) == (20 * num + den) \div (2 * den)

Count(food) == Cardinality({i \in 1..Len(store) : \E j \in 1..Len(store[i].favoriteFoods) : store[i].favoriteFoods[j] = food})

RatingSum(slot) == SumSeq([i \in 1..Len(store) |-> store[i].ratings[slot]])

---------------------------------------------------------------------------
(* Claims.                                                                 *)

(* C1: after any sequence of POST /submit and GET /stats requests, every   *)
(* record in the store satisfies all field constraints of the data model   *)
(* as of the day it was submitted.                                         *)
C1_StoredRecordsAdmissible ==
  \A i \in 1..Len(store) : RecordAdmissible(store[i])

(* C2: a submission in which a single field violates its rule is answered  *)
(* with a non-empty error list that has an entry for that field, never     *)
(* reaches submitSurvey, and leaves the store as it was.                   *)
C2_SingleViolationRejected ==
  [][(/\ Validated(req', resp')
      /\ Cardinality(ViolatedSlots(req'.body, DayOf(req'))) = 1)
     => (/\ ErrorsOf(resp') # <<>>
         /\ \A slot \in ViolatedSlots(req'.body, DayOf(req')) : HasError(resp', SlotPath(slot))
         /\ resp'.handler # "submitSurvey"
         /\ store' = store)]_vars

(* C3: when several fields of a submission violate their rules, the one    *)
(* rejection response lists every violated field.                          *)
C3_EveryViolatedFieldListed ==
  (/\ Validated(req, resp)
   /\ resp.handler = "validateSurvey"
   /\ Cardinality(ViolatedSlots(req.body, DayOf(req))) >= 2)
  => \A slot \in ViolatedSlots(req.body, DayOf(req)) : HasError(resp, SlotPath(slot))

(* C4: the dateOfBirth check accepts a parseable birth date exactly when   *)
(* its month/day-aware age on the current date is in [5,120].              *)
C4_AgeRangeDecidesDateOfBirth ==
  (Validated(req, resp) /\ Parseable(req.body.dateOfBirth))
  => (~HasError(resp, "dateOfBirth")
      <=> RuleAge(WrittenDate(req.body.dateOfBirth), DayOf(req)) \in 5..120)

(* C5: the contactNumber check accepts a value exactly when, trimmed, it   *)
(* is 10 characters long and every character is a decimal digit.           *)
C5_ContactNumberTenDigits ==
  Validated(req, resp)
  => (~HasError(resp, "contactNumber") <=> TenDigits(trim(req.body.contactNumber)))

(* C6: getSurveyStats answers with the empty-state marker exactly when the *)
(* store holds no records, and with a summary otherwise.                   *)
C6_MarkerIffEmpty ==
  StatsAnswered
  => /\ IsMarker(resp.body) <=> store = <<>>
     /\ IsSummary(resp.body) <=> store # <<>>

C6_Witness == StatsAnswered /\ store = <<>> /\ IsMarker(resp.body)

(* C7: for a non-empty store, oldest is the maximum and youngest the       *)
(* minimum of the records' computed ages, and averageAge is their mean     *)
(* rounded to one decimal; ages 18, 78, 32 give 18, 78 and 42.7.           *)
C7_OldestYoungestAverage ==
  (StatsAnswered /\ store # <<>>)
  => LET ages == AgesOn(DayOf(req))
         n == Len(store)
         gap == resp.body.averageAge * n - 10 * SumSeq(ages)
     IN  /\ \A i \in 1..n : ages[i] <= resp.body.oldest /\ ages[i] >= resp.body.youngest
         /\ \E i \in 1..n : ages[i] = resp.body.oldest
         /\ \E i \in 1..n : ages[i] = resp.body.youngest
         /\ 2 * gap <= n /\ 2 * gap >= 0 - n
         /\ ages = <<18, 78, 32>>
              => resp.body.youngest = 18 /\ resp.body.oldest = 78 /\ resp.body.averageAge = 427

C7_Witness ==
  /\ StatsAnswered
  /\ AgesOn(DayOf(req)) = <<18, 78, 32>>
  /\ resp.body.averageAge = 427

(* C8: every percentage and average of the summary is the exact quotient   *)
(* rounded to one decimal, a value midway between two being rounded away   *)
(* from zero (29 / 20 = 1.45 is reported as 1.5).                          *)
C8_HalfAwayFromZero ==
  (StatsAnswered /\ store # <<>>)
  => LET n == Len(store)
     IN  /\ resp.body.averageAge = HalfAway(SumSeq(AgesOn(DayOf(req))), n)
         /\ resp.body.pizzaLoversPercentage = HalfAway(100 * Count("Pizza"), n)
         /\ resp.body.papWorsPercentage = HalfAway(100 * Count("Pap and Wors"), n)
         /\ resp.body.averageEatOutRating = HalfAway(RatingSum("eatOut"), n)
         /\ resp.body.averageWatchMoviesRating = HalfAway(RatingSum("watchMovies"), n)
         /\ resp.body.averageWatchTVRating = HalfAway(RatingSum("watchTV"), n)
         /\ resp.body.averageListenRadioRating = HalfAway(RatingSum("listenRadio"), n)

=============================================================================
